---- MODULE Spec2Model ----
(***************************************************************************)
(* Model of the cloudbrowser MCP server (src/unnamed/part_000): the single *)
(* session slot, the screenshot catalog, the async tool-call handler with  *)
(* its suspension points, and the resource handlers.                       *)
(*                                                                         *)
(* Strings that the code parses or formats (screenshot names, resource     *)
(* URIs) are sequences of one-character strings; tool names and message    *)
(* templates, which the code only compares or emits, are atomic strings.   *)
(***************************************************************************)
EXTENDS Integers, Sequences, FiniteSets, TLC

\* Number of request slots of Spec: how many requests the transport may have
\* handed to their handlers without having sent the reply yet.  One slot is the
\* sequencing the design document attributes to the transport: the next request
\* is delivered after the previous handler has completed.
MaxInFlight == 1

\* Number of request slots of OverlappingSpec.  The source holds no queue, lock
\* or in-flight flag, and the handler is an async function that returns to the
\* event loop at its first await, so a request may arrive while another handler
\* is suspended.
MaxOverlapping == 2

\* a page handle that is undefined: (await browser.pages())[0] of an empty array
NoPage == 0

\* the value null of the session slot
NullSession == [browser |-> 0, page |-> NoPage]

\* a JavaScript value used as args.name: a string or undefined
Str(s) == [t |-> "string", s |-> s]
Undefined == [t |-> "undefined", s |-> <<>>]

(***************************************************************************)
(* String helpers (JavaScript semantics on character sequences).           *)
(***************************************************************************)
\* String.prototype.startsWith
StartsWith(s, p) ==
    /\ Len(s) >= Len(p)
    /\ SubSeq(s, 1, Len(p)) = p

\* 1-based index of the first occurrence of sep in s, 0 when there is none
IndexOf(s, sep) ==
    LET hits == {i \in 1..(Len(s) - Len(sep) + 1) : SubSeq(s, i, i + Len(sep) - 1) = sep}
    IN IF hits = {} THEN 0 ELSE CHOOSE i \in hits : \A j \in hits : i <= j

\* String.prototype.split(sep) for a non-empty separator
RECURSIVE Split(_, _)
Split(s, sep) ==
    LET i == IndexOf(s, sep)
    IN IF i = 0
       THEN <<s>>
       ELSE <<SubSeq(s, 1, i - 1)>> \o Split(SubSeq(s, i + Len(sep), Len(s)), sep)

\* String(v) as a template literal prints it: undefined prints as "undefined"
ToStr(v) ==
    IF v.t = "undefined"
    THEN <<"u", "n", "d", "e", "f", "i", "n", "e", "d">>
    ELSE v.s

SchemeSep == <<":", "/", "/">>
ScreenshotPrefix == <<"s", "c", "r", "e", "e", "n", "s", "h", "o", "t">> \o SchemeSep

(***************************************************************************)
(* Inputs.                                                                 *)
(***************************************************************************)
\* names of the seven declared tools
TOOLS ==
    { "cloudbrowser_navigate", "cloudbrowser_evaluate", "cloudbrowser_get_current_url",
      "cloudbrowser_screenshot", "cloudbrowser_click", "cloudbrowser_fill",
      "cloudbrowser_get_text" }

\* the names the handler's session check exempts
SessionlessTools == {"cloudbrowser_create_session"}

\* tool names a client may send: declared, exempted, and one the server does not know
ToolNames == TOOLS \cup SessionlessTools \cup {"cloudbrowser_close"}

\* strings a client may send as args.name of a screenshot call
NameStrings == { <<"a">>, <<"a", ":", "/", "/", "b">> }

\* values of args.name: one of the strings, or undefined when the argument is absent
ScreenshotNames == {Str(n) : n \in NameStrings} \cup {Undefined}

\* args.name as a client sends it with a call of the given tool
ArgNames(name) == IF name = "cloudbrowser_screenshot" THEN ScreenshotNames ELSE {Undefined}

\* base64 payloads page.screenshot may resolve to; "" is the empty capture
Blobs == {"png1", "png2"}
EmptyBlob == ""

\* the uri the resource listing gives a catalog key
UriOf(key) == ScreenshotPrefix \o ToStr(key)

\* URIs a client may read
ReadUris ==
    {UriOf(k) : k \in ScreenshotNames}
        \cup { <<"f", "o", "o">> \o SchemeSep \o <<"a">>, ScreenshotPrefix \o <<"b">> }


VARIABLES
    defaultBrowserSession,  \* the session slot: NullSession or [browser, page]
    browsers,               \* Map sessionId -> {browser, page}; only one key is ever used
    screenshots,            \* Map name -> blob, a function on the keys present
    listChanged,            \* a resources/list_changed notification has been sent
    nextHandle,             \* identity of the next {browser, page} object created
    calls,                  \* per request slot: the handler's position and locals
    captured                \* history: per args.name, the blob of its latest successful capture

vars == <<defaultBrowserSession, browsers, screenshots, listChanged, nextHandle, calls, captured>>

\* the request slots
CallIds == DOMAIN calls

(***************************************************************************)
(* Results.                                                                *)
(***************************************************************************)
TextItem(text, arg) == [type |-> "text", text |-> text, arg |-> arg, data |-> ""]
ImageItem(data) == [type |-> "image", text |-> "image/png", arg |-> "", data |-> data]
BlobItem(data) == [type |-> "blob", text |-> "image/png", arg |-> "", data |-> data]

\* a handler's promise resolved with a value
Returned(isError, content, resources) ==
    [raised |-> FALSE, isError |-> isError, content |-> content,
     resources |-> resources, error |-> ""]

\* a handler's promise rejected with an error
Raised(error) ==
    [raised |-> TRUE, isError |-> FALSE, content |-> <<>>, resources |-> {}, error |-> error]

NoResult == [raised |-> FALSE, isError |-> FALSE, content |-> <<>>, resources |-> {}, error |-> ""]

Envelope(isError, content) == Returned(isError, content, {})
ErrorEnvelope(text, arg) == Envelope(TRUE, <<TextItem(text, arg)>>)

TypeErrorMsg == "Cannot read properties of undefined"

IdleCall ==
    [pc |-> "idle", method |-> "", name |-> "", argName |-> Undefined, uri |-> <<>>,
     session |-> NullSession, result |-> NoResult,
     held |-> NullSession, provRequests |-> 0, probes |-> 0, probeOk |-> FALSE,
     failure |-> "none"]

InitWith(slots) ==
    /\ defaultBrowserSession = NullSession
    /\ browsers = NullSession
    /\ screenshots = [k \in {} |-> ""]
    /\ listChanged = FALSE
    /\ nextHandle = 1
    /\ calls = [c \in 1..slots |-> IdleCall]
    /\ captured = [k \in {} |-> ""]

Init == InitWith(MaxInFlight)

InitOverlapping == InitWith(MaxOverlapping)

(***************************************************************************)
(* Map operations of the screenshot catalog.                               *)
(***************************************************************************)
\* Map.prototype.get: the blob under key, or "" (undefined, falsy) when absent
MapGet(map, key) == IF key \in DOMAIN map THEN map[key] ELSE EmptyBlob

\* Map.prototype.set: adds the key or overwrites its value
MapSet(map, key, value) ==
    [k \in DOMAIN map \cup {key} |-> IF k = key THEN value ELSE map[k]]

(***************************************************************************)
(* handleToolCall: the pieces between suspension points.                   *)
(***************************************************************************)
\* line 201: the session check is skipped for the exempted names only
NeedsSessionDeclaredOnly(name) == name \in TOOLS
NeedsSession(name) == name \notin SessionlessTools

\* line 43: !defaultBrowserSession
NoSessionHeld(slot) == slot = NullSession

\* the handler has completed with the given result
Finish(call, result, failure) ==
    [call EXCEPT !.pc = "done", !.result = result, !.failure = failure]

\* the handler is suspended at the await named by pc
Suspend(call, pc) == [call EXCEPT !.pc = pc]

\* lines 409-423: the outer catch turns any error into an error envelope
OuterCatchRethrows(error) == Raised(error)
OuterCatch(error) == ErrorEnvelope("Failed to handle tool call: ", error)

\* lines 398-407: the default case of the switch
UnknownToolNotAnError(name) == Envelope(FALSE, <<TextItem("Unknown tool: ", name)>>)
UnknownTool(name) == ErrorEnvelope("Unknown tool: ", name)

\* lines 207-408: the switch, run synchronously up to the browser action it awaits.
\* A member access on an undefined page throws a TypeError before any action starts.
Dispatch(call0, session) ==
    LET call == [call0 EXCEPT !.session = session]
        noPage == session.page = NoPage
    IN CASE call.name = "cloudbrowser_navigate" ->
                IF noPage THEN Finish(call, OuterCatch(TypeErrorMsg), "action")
                ELSE Suspend(call, "goto")
         [] call.name = "cloudbrowser_evaluate" ->
                IF noPage
                THEN Finish(call, ErrorEnvelope("Failed to Evaluated script: ", TypeErrorMsg), "action")
                ELSE Suspend(call, "evaluate")
         [] call.name = "cloudbrowser_get_current_url" ->
                IF noPage THEN Finish(call, OuterCatch(TypeErrorMsg), "action")
                ELSE Finish(call, Envelope(FALSE, <<TextItem("Current URL: ", "")>>), "none")
         [] call.name = "cloudbrowser_screenshot" ->
                IF noPage THEN Finish(call, OuterCatch(TypeErrorMsg), "action")
                ELSE Suspend(call, "screenshot")
         [] call.name = "cloudbrowser_click" ->
                IF noPage
                THEN Finish(call, ErrorEnvelope("Failed to click ", TypeErrorMsg), "action")
                ELSE Suspend(call, "click")
         [] call.name = "cloudbrowser_fill" ->
                IF noPage
                THEN Finish(call, ErrorEnvelope("Failed to fill ", TypeErrorMsg), "action")
                ELSE Suspend(call, "waitForSelector")
         [] call.name = "cloudbrowser_get_text" ->
                IF noPage
                THEN Finish(call, ErrorEnvelope("Failed to extract content: ", TypeErrorMsg), "action")
                ELSE Suspend(call, "getText")
         [] OTHER ->
                Finish(call, UnknownTool(call.name), "none")

\* lines 37-55, entry: what ensureBrowserSession does before its first await
ensureBrowserSession(call) ==
    IF NoSessionHeld(defaultBrowserSession)
    THEN \* createNewBrowserSession -> getBrowserUrl: the request is sent (line 61)
         Suspend([call EXCEPT !.provRequests = @ + 1], "fetch")
    ELSE IF defaultBrowserSession.page = NoPage
         THEN \* line 48 throws on the undefined page; rethrown at line 53
              Finish(call, OuterCatch(TypeErrorMsg), "acquisition")
         ELSE \* line 48: the liveness probe is sent
              Suspend([call EXCEPT !.probes = @ + 1], "probe")

\* lines 193-204 and 478-480: a tools/call request reaches handleToolCall
handleToolCall(c, name, argName) ==
    /\ calls[c].pc = "idle"
    /\ LET call == [IdleCall EXCEPT !.method = "tools/call", !.name = name,
                                    !.argName = argName, !.held = defaultBrowserSession]
       IN calls' = [calls EXCEPT ![c] =
                        IF NeedsSession(name)
                        THEN ensureBrowserSession(call)
                        ELSE Dispatch(call, NullSession)]
    /\ UNCHANGED <<defaultBrowserSession, browsers, screenshots, listChanged, nextHandle, captured>>

\* lines 58-76: fetch settles; a rejection or a non-2xx status is thrown (logged, rethrown)
getBrowserUrl_fetched(c, outcome) ==
    /\ calls[c].pc = "fetch"
    /\ calls' = [calls EXCEPT ![c] =
            CASE outcome = "rejected" -> Finish(@, OuterCatch("fetch failed"), "acquisition")
              [] outcome = "notOk" -> Finish(@, OuterCatch("HTTP error! status: "), "acquisition")
              [] OTHER -> Suspend(@, "json")]
    /\ UNCHANGED <<defaultBrowserSession, browsers, screenshots, listChanged, nextHandle, captured>>

\* lines 78-96: the body is parsed; a payload without code 200 and browserUrl is thrown;
\* otherwise puppeteer.connect is started
getBrowserUrl_parsed(c, outcome) ==
    /\ calls[c].pc = "json"
    /\ calls' = [calls EXCEPT ![c] =
            CASE outcome = "rejected" -> Finish(@, OuterCatch("invalid json"), "acquisition")
              [] outcome = "malformed" ->
                    Finish(@, OuterCatch("Failed to get browserUrl. Response: "), "acquisition")
              [] OTHER -> Suspend(@, "connect")]
    /\ UNCHANGED <<defaultBrowserSession, browsers, screenshots, listChanged, nextHandle, captured>>

\* lines 96-100: puppeteer.connect settles; on success browser.pages() is started
createNewBrowserSession_connected(c, ok) ==
    /\ calls[c].pc = "connect"
    /\ calls' = [calls EXCEPT ![c] =
            IF ok THEN Suspend(@, "pages")
            ELSE Finish(@, OuterCatch("connect failed"), "acquisition")]
    /\ UNCHANGED <<defaultBrowserSession, browsers, screenshots, listChanged, nextHandle, captured>>

\* lines 100-103: browser.pages() settles; [0] of the array is the page (undefined
\* when the array is empty); the pair is put in browsers and returned
createNewBrowserSession_pages(c, outcome) ==
    /\ calls[c].pc = "pages"
    /\ IF outcome = "rejected"
       THEN /\ calls' = [calls EXCEPT ![c] = Finish(@, OuterCatch("pages failed"), "acquisition")]
            /\ UNCHANGED <<browsers, nextHandle>>
       ELSE LET created == [browser |-> nextHandle,
                            page |-> IF outcome = "empty" THEN NoPage ELSE nextHandle]
            IN /\ browsers' = created
               /\ nextHandle' = nextHandle + 1
               /\ calls' = [calls EXCEPT ![c] = Suspend([@ EXCEPT !.session = created], "created")]
    /\ UNCHANGED <<defaultBrowserSession, screenshots, listChanged, captured>>

\* lines 44-45 and 203: the awaited pair is stored in the slot, the slot is returned,
\* and the switch runs on it
ensureBrowserSession_created(c) ==
    /\ calls[c].pc = "created"
    /\ defaultBrowserSession' = calls[c].session
    /\ calls' = [calls EXCEPT ![c] = Dispatch(@, defaultBrowserSession')]
    /\ UNCHANGED <<browsers, screenshots, listChanged, nextHandle, captured>>

\* lines 48-53 and 203: the probe settles; on success the slot as it is now is
\* returned and the switch runs on it; a failure is rethrown to the outer catch
ensureBrowserSession_probed(c, ok) ==
    /\ calls[c].pc = "probe"
    /\ calls' = [calls EXCEPT ![c] =
            IF ok THEN Dispatch([@ EXCEPT !.probeOk = TRUE], defaultBrowserSession)
            ELSE Finish(@, OuterCatch("probe failed"), "acquisition")]
    /\ UNCHANGED <<defaultBrowserSession, browsers, screenshots, listChanged, nextHandle, captured>>

(***************************************************************************)
(* The browser actions settle.                                             *)
(***************************************************************************)
\* lines 209-218: page.goto settles; a failure reaches the outer catch
GotoDone(c, ok) ==
    /\ calls[c].pc = "goto"
    /\ calls' = [calls EXCEPT ![c] =
            IF ok THEN Finish(@, Envelope(FALSE, <<TextItem("Navigated to ", "")>>), "none")
            ELSE Finish(@, OuterCatch("goto failed"), "action")]
    /\ UNCHANGED <<defaultBrowserSession, browsers, screenshots, listChanged, nextHandle, captured>>

\* lines 220-242: page.evaluate(script) settles; a failure is caught locally
EvaluateDone(c, ok) ==
    /\ calls[c].pc = "evaluate"
    /\ calls' = [calls EXCEPT ![c] =
            IF ok THEN Finish(@, Envelope(FALSE, <<TextItem("Evaluated script: ", "")>>), "none")
            ELSE Finish(@, ErrorEnvelope("Failed to Evaluated script: ", "evaluate failed"), "action")]
    /\ UNCHANGED <<defaultBrowserSession, browsers, screenshots, listChanged, nextHandle, captured>>

\* lines 259-296: page.screenshot settles with a blob, with nothing, or by throwing
ScreenshotDone(c, outcome) ==
    /\ calls[c].pc = "screenshot"
    /\ IF outcome \in Blobs
       THEN /\ screenshots' = MapSet(screenshots, calls[c].argName, outcome)
            /\ listChanged' = TRUE
            /\ captured' = MapSet(captured, calls[c].argName, outcome)
            /\ calls' = [calls EXCEPT ![c] =
                    Finish(@, Envelope(FALSE, <<TextItem("Screenshot taken", ""), ImageItem(outcome)>>),
                           "none")]
       ELSE /\ calls' = [calls EXCEPT ![c] =
                    IF outcome = EmptyBlob
                    THEN Finish(@, ErrorEnvelope("Screenshot failed", ""), "action")
                    ELSE Finish(@, OuterCatch("screenshot failed"), "action")]
            /\ UNCHANGED <<screenshots, listChanged, captured>>
    /\ UNCHANGED <<defaultBrowserSession, browsers, nextHandle>>

\* lines 298-321: page.click settles; a failure is caught locally
ClickDone(c, ok) ==
    /\ calls[c].pc = "click"
    /\ calls' = [calls EXCEPT ![c] =
            IF ok THEN Finish(@, Envelope(FALSE, <<TextItem("Clicked: ", "")>>), "none")
            ELSE Finish(@, ErrorEnvelope("Failed to click ", "click failed"), "action")]
    /\ UNCHANGED <<defaultBrowserSession, browsers, screenshots, listChanged, nextHandle, captured>>

\* lines 324-326: page.waitForSelector settles; on success page.type is started
WaitForSelectorDone(c, ok) ==
    /\ calls[c].pc = "waitForSelector"
    /\ calls' = [calls EXCEPT ![c] =
            IF ok THEN Suspend(@, "type")
            ELSE Finish(@, ErrorEnvelope("Failed to fill ", "waitForSelector failed"), "action")]
    /\ UNCHANGED <<defaultBrowserSession, browsers, screenshots, listChanged, nextHandle, captured>>

\* lines 326-349: page.type settles; a failure is caught locally
TypeDone(c, ok) ==
    /\ calls[c].pc = "type"
    /\ calls' = [calls EXCEPT ![c] =
            IF ok THEN Finish(@, Envelope(FALSE, <<TextItem("Filled ", "")>>), "none")
            ELSE Finish(@, ErrorEnvelope("Failed to fill ", "type failed"), "action")]
    /\ UNCHANGED <<defaultBrowserSession, browsers, screenshots, listChanged, nextHandle, captured>>

\* lines 351-396: the page text is read and filtered; a failure is caught locally
GetTextDone(c, ok) ==
    /\ calls[c].pc = "getText"
    /\ calls' = [calls EXCEPT ![c] =
            IF ok THEN Finish(@, Envelope(FALSE, <<TextItem("Extracted content:", "")>>), "none")
            ELSE Finish(@, ErrorEnvelope("Failed to extract content: ", "evaluate failed"), "action")]
    /\ UNCHANGED <<defaultBrowserSession, browsers, screenshots, listChanged, nextHandle, captured>>

(***************************************************************************)
(* Resource handlers: no await, so each runs in one step.                  *)
(***************************************************************************)
\* lines 441-449: one entry per key of the catalog
ListResourcesHandler(map) == Returned(FALSE, <<>>, {UriOf(k) : k \in DOMAIN map})

\* lines 451-472: the blob under the second piece of the uri split at "://", or an error
ReadResourceHandler(uri, map) ==
    IF StartsWith(uri, ScreenshotPrefix)
    THEN LET name == Split(uri, SchemeSep)[2]
             screenshot == MapGet(map, Str(name))
         IN IF screenshot # EmptyBlob
            THEN Returned(FALSE, <<BlobItem(screenshot)>>, {uri})
            ELSE Raised("Resource not found: ")
    ELSE Raised("Resource not found: ")

ListResources(c) ==
    /\ calls[c].pc = "idle"
    /\ calls' = [calls EXCEPT ![c] =
            Finish([IdleCall EXCEPT !.method = "resources/list"],
                   ListResourcesHandler(screenshots), "none")]
    /\ UNCHANGED <<defaultBrowserSession, browsers, screenshots, listChanged, nextHandle, captured>>

ReadResource(c, uri) ==
    /\ calls[c].pc = "idle"
    /\ calls' = [calls EXCEPT ![c] =
            Finish([IdleCall EXCEPT !.method = "resources/read", !.uri = uri],
                   ReadResourceHandler(uri, screenshots), "none")]
    /\ UNCHANGED <<defaultBrowserSession, browsers, screenshots, listChanged, nextHandle, captured>>

\* the transport sends the reply of a completed handler; the slot is free again
Reply(c) ==
    /\ calls[c].pc = "done"
    /\ calls' = [calls EXCEPT ![c] = IdleCall]
    /\ UNCHANGED <<defaultBrowserSession, browsers, screenshots, listChanged, nextHandle, captured>>

Next ==
    \/ \E c \in CallIds : \E name \in ToolNames : \E argName \in ArgNames(name) :
            handleToolCall(c, name, argName)
    \/ \E c \in CallIds : \E outcome \in {"rejected", "notOk", "ok"} :
            getBrowserUrl_fetched(c, outcome)
    \/ \E c \in CallIds : \E outcome \in {"rejected", "malformed", "ok"} :
            getBrowserUrl_parsed(c, outcome)
    \/ \E c \in CallIds : \E ok \in BOOLEAN : createNewBrowserSession_connected(c, ok)
    \/ \E c \in CallIds : \E outcome \in {"rejected", "empty", "first"} :
            createNewBrowserSession_pages(c, outcome)
    \/ \E c \in CallIds : ensureBrowserSession_created(c)
    \/ \E c \in CallIds : \E ok \in BOOLEAN : ensureBrowserSession_probed(c, ok)
    \/ \E c \in CallIds : \E ok \in BOOLEAN : GotoDone(c, ok)
    \/ \E c \in CallIds : \E ok \in BOOLEAN : EvaluateDone(c, ok)
    \/ \E c \in CallIds : \E outcome \in Blobs \cup {EmptyBlob, "rejected"} :
            ScreenshotDone(c, outcome)
    \/ \E c \in CallIds : \E ok \in BOOLEAN : ClickDone(c, ok)
    \/ \E c \in CallIds : \E ok \in BOOLEAN : WaitForSelectorDone(c, ok)
    \/ \E c \in CallIds : \E ok \in BOOLEAN : TypeDone(c, ok)
    \/ \E c \in CallIds : \E ok \in BOOLEAN : GetTextDone(c, ok)
    \/ \E c \in CallIds : ListResources(c)
    \/ \E c \in CallIds : \E uri \in ReadUris : ReadResource(c, uri)
    \/ \E c \in CallIds : Reply(c)

\* requests are handled one at a time
Spec == Init /\ [][Next]_vars

\* requests may overlap
OverlappingSpec == InitOverlapping /\ [][Next]_vars

(***************************************************************************)
(* Vocabulary of the properties.                                           *)
(***************************************************************************)
\* request slot c holds a tool call whose handler has completed
Completed(c) == calls[c].method = "tools/call" /\ calls[c].pc = "done"

\* request slot c holds a tool call that has been started
Started(c) == calls[c].method = "tools/call" /\ calls[c].pc # "idle"

\* the handler of c is suspended inside createNewBrowserSession
Provisioning(c) == calls[c].pc \in {"fetch", "json", "connect", "pages", "created"}

\* the handler of c is suspended at some await
Suspended(c) == calls[c].pc \notin {"idle", "done"}

\* the liveness probe of c was sent and threw
ProbeFailed(c) == Completed(c) /\ calls[c].probes = 1 /\ ~calls[c].probeOk

\* the provisioning round-trip of c failed: a request was sent and either a step
\* threw or the page selection produced no page
ProvisioningFailed(c) ==
    /\ Completed(c)
    /\ calls[c].provRequests = 1
    /\ \/ calls[c].failure = "acquisition"
       \/ calls[c].session.page = NoPage

\* the result of c is an error envelope with exactly one text item
IsErrorEnvelope(r) ==
    /\ ~r.raised
    /\ r.isError
    /\ Len(r.content) = 1
    /\ r.content[1].type = "text"
    /\ r.content[1].text # ""

\* the part of a uri after the screenshot:// scheme
NameAfterScheme(uri) == SubSeq(uri, Len(ScreenshotPrefix) + 1, Len(uri))

(***************************************************************************)
(* C1: every completed tool call, whatever its name, its arguments and the *)
(* state of the session slot, has resolved with a result envelope and has  *)
(* not raised; when session acquisition or the browser action failed, the  *)
(* envelope has isError = true and exactly one text item.                  *)
(***************************************************************************)
C1_NeverRaises ==
    \A c \in CallIds :
        Completed(c) =>
            /\ ~calls[c].result.raised
            /\ calls[c].failure # "none" => IsErrorEnvelope(calls[c].result)

\* a tool call whose session acquisition failed has completed with an error envelope
C1_Witness ==
    \E c \in CallIds :
        /\ Completed(c)
        /\ calls[c].failure = "acquisition"
        /\ IsErrorEnvelope(calls[c].result)

(***************************************************************************)
(* C2 as stated: a tool call made while no Session is held sends exactly   *)
(* one provisioning request; a tool call made while a Session is held      *)
(* whose probe succeeds sends no provisioning request and one probe.       *)
(***************************************************************************)
C2_Original ==
    \A c \in CallIds :
        Started(c) =>
            /\ calls[c].held = NullSession =>
                    calls[c].provRequests = 1 /\ calls[c].probes = 0
            /\ (calls[c].held # NullSession /\ calls[c].probeOk) =>
                    calls[c].provRequests = 0 /\ calls[c].probes = 1

(***************************************************************************)
(* C2 amended: the same, for every tool call whose name is not             *)
(* cloudbrowser_create_session (for that name neither a provisioning       *)
(* request nor a probe is sent).                                           *)
(***************************************************************************)
C2_Amended ==
    \A c \in CallIds :
        Started(c) =>
            IF calls[c].name = "cloudbrowser_create_session"
            THEN calls[c].provRequests = 0 /\ calls[c].probes = 0
            ELSE /\ calls[c].held = NullSession =>
                        calls[c].provRequests = 1 /\ calls[c].probes = 0
                 /\ (calls[c].held # NullSession /\ calls[c].probeOk) =>
                        calls[c].provRequests = 0 /\ calls[c].probes = 1

\* a tool call made while a live Session was held has completed after one probe
C2_Witness ==
    \E c \in CallIds :
        /\ Completed(c)
        /\ calls[c].name # "cloudbrowser_create_session"
        /\ calls[c].held # NullSession
        /\ calls[c].probeOk
        /\ calls[c].probes = 1
        /\ calls[c].provRequests = 0

(***************************************************************************)
(* C3: the session slot is empty or holds a complete Session: a connected  *)
(* browser handle together with a page handle.                             *)
(***************************************************************************)
C3_CompleteSession ==
    \/ defaultBrowserSession = NullSession
    \/ /\ defaultBrowserSession.browser # 0
       /\ defaultBrowserSession.page # NoPage

(***************************************************************************)
(* C4: for every name under which a screenshot call succeeded, the         *)
(* resource listing has screenshot://<name> and reading that uri returns   *)
(* the blob of the latest successful capture under that name.              *)
(***************************************************************************)
C4_RoundTrip ==
    \A n \in NameStrings :
        Str(n) \in DOMAIN captured =>
            /\ UriOf(Str(n)) \in ListResourcesHandler(screenshots).resources
            /\ LET r == ReadResourceHandler(UriOf(Str(n)), screenshots)
               IN /\ ~r.raised
                  /\ r.content = <<BlobItem(captured[Str(n)])>>

(***************************************************************************)
(* C5: when the liveness probe of a held Session fails, the Session is     *)
(* invalidated: once that tool call has completed, the slot no longer      *)
(* holds the Session whose probe failed.                                   *)
(***************************************************************************)
C5_InvalidatedOnProbeFailure ==
    \A c \in CallIds :
        ProbeFailed(c) => defaultBrowserSession # calls[c].held

(***************************************************************************)
(* C6: once a Session has been stored, the slot is never cleared or        *)
(* replaced by any later step.                                             *)
(***************************************************************************)
C6_SlotNeverReplaced ==
    [][defaultBrowserSession # NullSession => defaultBrowserSession' = defaultBrowserSession]_vars

(***************************************************************************)
(* C7: read_resource fails exactly when the uri does not start with        *)
(* screenshot:// or the name after the scheme is absent from the catalog,  *)
(* and otherwise returns the blob stored under that name as image/png.     *)
(***************************************************************************)
C7_NotFoundExactly ==
    \A uri \in ReadUris :
        LET r == ReadResourceHandler(uri, screenshots)
            key == Str(NameAfterScheme(uri))
            absent == ~StartsWith(uri, ScreenshotPrefix) \/ key \notin DOMAIN screenshots
        IN /\ r.raised <=> absent
           /\ ~absent => r.content = <<BlobItem(screenshots[key])>>

(***************************************************************************)
(* C8 as stated: a completed tool call whose name is not a declared tool   *)
(* has an error envelope whose text says the tool is unknown, whatever the *)
(* outcome of session acquisition.                                         *)
(***************************************************************************)
C8_Original ==
    \A c \in CallIds :
        (Completed(c) /\ calls[c].name \notin TOOLS) =>
            /\ IsErrorEnvelope(calls[c].result)
            /\ calls[c].result.content[1].text = "Unknown tool: "
            /\ calls[c].result.content[1].arg = calls[c].name

(***************************************************************************)
(* C8 amended: such a call always has an error envelope; its text says the *)
(* tool is unknown when session acquisition succeeded or was skipped, and  *)
(* is the failure message of the outer handler when acquisition failed.    *)
(***************************************************************************)
C8_Amended ==
    \A c \in CallIds :
        (Completed(c) /\ calls[c].name \notin TOOLS) =>
            /\ IsErrorEnvelope(calls[c].result)
            /\ IF calls[c].failure = "acquisition"
               THEN calls[c].result.content[1].text = "Failed to handle tool call: "
               ELSE /\ calls[c].result.content[1].text = "Unknown tool: "
                    /\ calls[c].result.content[1].arg = calls[c].name

\* an undeclared tool was called and its session acquisition failed
C8_Witness ==
    \E c \in CallIds :
        /\ Completed(c)
        /\ calls[c].name = "cloudbrowser_close"
        /\ calls[c].failure = "acquisition"
        /\ calls[c].result.isError

(***************************************************************************)
(* C9: no tool call starts while another is suspended at a network call:   *)
(* at most one handler is suspended, so at most one provisioning attempt   *)
(* is in flight.                                                           *)
(***************************************************************************)
C9_OneAtATime ==
    /\ Cardinality({c \in CallIds : Suspended(c)}) <= 1
    /\ Cardinality({c \in CallIds : Provisioning(c)}) <= 1

(***************************************************************************)
(* C10: when the provisioning round-trip of a tool call has failed, the    *)
(* call has an error envelope and the session slot is still empty.         *)
(***************************************************************************)
C10_FailureLeavesSlotEmpty ==
    \A c \in CallIds :
        ProvisioningFailed(c) =>
            /\ IsErrorEnvelope(calls[c].result)
            /\ defaultBrowserSession = NullSession

====
